---- MODULE Spec2Model ----
(***************************************************************************)
(* Model of src/extension.ts of the Clay Handlebars editor extension.      *)
(*                                                                         *)
(* Two reactive parts are modelled:                                        *)
(*   - checkAndSetLanguageId and the three workspace listeners that call   *)
(*     it (document opened / saved / changed);                             *)
(*   - the completion provider (provideCompletionItems).                   *)
(*                                                                         *)
(* Text is modelled as a sequence of one-character strings, so that trim,  *)
(* substring, includes and string comparison are computed character by     *)
(* character as the JavaScript built-ins compute them.                     *)
(***************************************************************************)
EXTENDS Integers, Sequences, FiniteSets, TLC

(***************************************************************************)
(* Bounds of the model.                                                    *)
(***************************************************************************)
\* largest number of lines of a document
MaxLines == 2
\* largest number of content changes carried by one change event
MaxChanges == 2
\* largest number of language-change requests in flight to the host
MaxPending == 2
\* largest length of the line a completion is requested on
MaxLineLen == 5

(***************************************************************************)
(* Constants of the program.                                               *)
(***************************************************************************)
JS_CLAY_LANG_ID == "javascript-with-clay"

TS_CLAY_LANG_ID == "typescript-with-clay"

MAGIC_COMMENT == <<"/", "/", " ", "@", "c", "l", "a", "y">>

\* the value of targetLangId before a target is chosen (null)
NoTarget == "null"

validLanguages == {"javascript", "javascriptreact", "typescript", "typescriptreact"}

\* The language ids a document can carry: those the extension knows, and one
\* it does not.
LanguageIds == validLanguages \cup {JS_CLAY_LANG_ID, TS_CLAY_LANG_ID, "python"}

(***************************************************************************)
(* String.prototype.trim: strips white space from both ends, nothing in    *)
(* the middle.                                                             *)
(***************************************************************************)
WhiteSpace == {" ", "\t"}

RECURSIVE TrimStart(_)
TrimStart(s) ==
  IF s # <<>> /\ Head(s) \in WhiteSpace THEN TrimStart(Tail(s)) ELSE s

RECURSIVE TrimEnd(_)
TrimEnd(s) ==
  IF s # <<>> /\ s[Len(s)] \in WhiteSpace
    THEN TrimEnd(SubSeq(s, 1, Len(s) - 1))
    ELSE s

\* a trim that forgets the end of the string
Trim_StartOnly(s) == TrimStart(s)

Trim(s) == TrimEnd(TrimStart(s))

(***************************************************************************)
(* The documents of the model.  Line 0 ranges over the marker, its near    *)
(* misses, the empty line and ordinary code, each with white space before  *)
(* and after it; later lines are the marker or ordinary code.              *)
(***************************************************************************)
NearMisses ==
  { <<"/", "/", "@", "c", "l", "a", "y">>,
    <<"/", "/", " ", " ", "@", "c", "l", "a", "y">>,
    MAGIC_COMMENT \o <<" ", "x">> }

Pads == { <<>>, <<" ">>, <<"\t">>, <<" ", "\t">> }

FirstLines ==
  { p \o c \o q : p \in Pads, q \in Pads,
                  c \in {MAGIC_COMMENT} \cup NearMisses \cup { <<>>, <<"x">> } }

OtherLines == { MAGIC_COMMENT, <<"x">> }

RECURSIVE SeqsUpTo(_, _)
SeqsUpTo(S, n) ==
  IF n = 0 THEN { <<>> }
  ELSE LET shorter == SeqsUpTo(S, n - 1)
       IN  shorter \cup { Append(t, x) : t \in shorter, x \in S }

Texts ==
  { <<>> } \cup { <<l>> \o rest : l \in FirstLines, rest \in SeqsUpTo(OtherLines, MaxLines - 1) }

(***************************************************************************)
(* The texts an editing session moves through: on line 0 the marker, bare  *)
(* and with white space around it, a near miss and ordinary code; every    *)
(* later line is the marker, the content that would matter most if the     *)
(* program looked beyond line 0.                                           *)
(***************************************************************************)
SessionFirstLines ==
  { MAGIC_COMMENT,
    <<" ", "\t">> \o MAGIC_COMMENT \o <<"\t">>,
    MAGIC_COMMENT \o <<" ", "x">>,
    <<"x">> }

SessionTexts ==
  { <<>> } \cup { <<l>> \o rest : l \in SessionFirstLines,
                                  rest \in SeqsUpTo({MAGIC_COMMENT}, MaxLines - 1) }

(***************************************************************************)
(* State.                                                                  *)
(*   document   the text document: its languageId and its lines            *)
(*   pending    the targets of the setTextDocumentLanguage calls the host  *)
(*              has not carried out yet (the call is not awaited)          *)
(*   last       the latest event delivered and what its listener did       *)
(*   origin     history: the languageId the document had at activation     *)
(*   markerSeen history: checkAndSetLanguageId has run on the document     *)
(*              while it had a valid language and the marker on line 0     *)
(*   request, items   the completion request (cursor position, answered or *)
(*              not) and the items returned for it                         *)
(***************************************************************************)
VARIABLES document, pending, last, origin, markerSeen, request, items

vars == <<document, pending, last, origin, markerSeen, request, items>>

\* what one run of checkAndSetLanguageId asks of the host
NoEffect == [relabel |-> NoTarget, message |-> FALSE]

\* the two derived ids exchanged
targetLangId_Swapped(languageId) ==
  IF languageId = "javascript" \/ languageId = "javascriptreact"
    THEN TS_CLAY_LANG_ID
  ELSE IF languageId = "typescript" \/ languageId = "typescriptreact"
    THEN JS_CLAY_LANG_ID
  ELSE NoTarget

\* lines 33-46: the derived language id chosen for a language id
targetLangId(languageId) ==
  IF languageId = "javascript" \/ languageId = "javascriptreact"
    THEN JS_CLAY_LANG_ID
  ELSE IF languageId = "typescript" \/ languageId = "typescriptreact"
    THEN TS_CLAY_LANG_ID
  ELSE NoTarget

\* no validLanguages guard, and a plain else for the TypeScript branch
checkAndSetLanguageId_NoGuard(d) ==
  IF Len(d.lines) > 0 /\ Trim(d.lines[1]) = MAGIC_COMMENT
    THEN LET target == IF d.languageId = "javascript" \/ d.languageId = "javascriptreact"
                         THEN JS_CLAY_LANG_ID
                         ELSE TS_CLAY_LANG_ID
         IN  IF d.languageId # target
               THEN [relabel |-> target, message |-> TRUE]
               ELSE NoEffect
    ELSE NoEffect

\* the marker looked for on every line instead of line 0
checkAndSetLanguageId_AnyLine(d) ==
  IF d.languageId \notin validLanguages THEN NoEffect
  ELSE IF \E i \in 1..Len(d.lines) : Trim(d.lines[i]) = MAGIC_COMMENT
    THEN LET target == targetLangId(d.languageId)
         IN  IF target # NoTarget /\ d.languageId # target
               THEN [relabel |-> target, message |-> TRUE]
               ELSE NoEffect
    ELSE NoEffect

\* lines 16-64: relabel is the argument of setTextDocumentLanguage (NoTarget
\* when it is not called), message tells whether showInformationMessage ran
checkAndSetLanguageId(d) ==
  IF d.languageId \notin validLanguages THEN NoEffect
  ELSE IF Len(d.lines) > 0
    THEN LET firstLine == Trim(d.lines[1])
         IN  IF firstLine = MAGIC_COMMENT
               THEN LET target == targetLangId(d.languageId)
                    IN  IF target # NoTarget /\ d.languageId # target
                          THEN [relabel |-> target, message |-> TRUE]
                          ELSE NoEffect
               ELSE NoEffect
    ELSE NoEffect

\* every instead of some
hasFirstLineChange_Every(changes) ==
  \A change \in changes : change.start = 0 \/ change.end = 0

\* lines 87-89: changes.some(start.line === 0 || end.line === 0)
hasFirstLineChange(changes) ==
  \E change \in changes : change.start = 0 \/ change.end = 0

(***************************************************************************)
(* A listener has run: evaluated tells whether it called                   *)
(* checkAndSetLanguageId on the document d of the event.                   *)
(***************************************************************************)
Deliver(event, changes, d, evaluated) ==
  LET effect == IF evaluated THEN checkAndSetLanguageId(d) ELSE NoEffect
  IN  /\ document' = d
      /\ pending' = IF effect.relabel # NoTarget
                      THEN Append(pending, effect.relabel)
                      ELSE pending
      /\ Len(pending') <= MaxPending
      /\ last' = [event |-> event, changes |-> changes, evaluated |-> evaluated,
                  relabel |-> effect.relabel, message |-> effect.message]
      /\ markerSeen' = (markerSeen \/ (/\ evaluated
                                       /\ d.languageId \in validLanguages
                                       /\ Len(d.lines) > 0
                                       /\ Trim(d.lines[1]) = MAGIC_COMMENT))
      /\ UNCHANGED <<origin, request, items>>

\* line 74: onDidOpenTextDocument(checkAndSetLanguageId)
DidOpenTextDocument == Deliver("opened", {}, document, TRUE)

\* line 79: onDidSaveTextDocument(checkAndSetLanguageId)
DidSaveTextDocument == Deliver("saved", {}, document, TRUE)

(***************************************************************************)
(* The content changes of an event are ranges of the text before the       *)
(* change, by their start and end line.  The text after the change keeps   *)
(* every line that lies wholly before the first changed range.             *)
(***************************************************************************)
LastLine(lines) == IF Len(lines) = 0 THEN 0 ELSE Len(lines) - 1

Ranges(lines) ==
  { [start |-> s, end |-> e] : s \in 0..LastLine(lines), e \in 0..LastLine(lines) }

ChangeSets(lines) ==
  { cs \in SUBSET { r \in Ranges(lines) : r.start <= r.end } : Cardinality(cs) <= MaxChanges }

FirstChanged(changes) ==
  CHOOSE n \in { c.start : c \in changes } : \A c \in changes : n <= c.start

Edited(old, changes) ==
  IF changes = {} THEN { old }
  ELSE { new \in SessionTexts :
           \A i \in 1..FirstChanged(changes) :
              i <= Len(old) /\ i <= Len(new) /\ new[i] = old[i] }

\* lines 84-94: the onDidChangeTextDocument listener
DidChangeTextDocument ==
  \E changes \in ChangeSets(document.lines) :
    \E lines \in Edited(document.lines, changes) :
      Deliver("changed", changes, [document EXCEPT !.lines = lines],
              hasFirstLineChange(changes))

\* line 50: the host carries out a setTextDocumentLanguage request; the
\* document's languageId changes only now, not during the call
SetTextDocumentLanguage ==
  /\ pending # <<>>
  /\ document' = [document EXCEPT !.languageId = Head(pending)]
  /\ pending' = Tail(pending)
  /\ last' = [event |-> "relabeled", changes |-> {}, evaluated |-> FALSE,
              relabel |-> NoTarget, message |-> FALSE]
  /\ UNCHANGED <<origin, markerSeen, request, items>>

\* lines 66-70: at activation the documents already open are not examined
Init ==
  /\ document \in [languageId : LanguageIds, lines : SessionTexts]
  /\ pending = <<>>
  /\ last = [event |-> "activate", changes |-> {}, evaluated |-> FALSE,
             relabel |-> NoTarget, message |-> FALSE]
  /\ origin = document.languageId
  /\ markerSeen = FALSE
  /\ request = [line |-> 0, character |-> 0, answered |-> FALSE]
  /\ items = <<>>

Next ==
  \/ DidOpenTextDocument
  \/ DidSaveTextDocument
  \/ DidChangeTextDocument
  \/ SetTextDocumentLanguage

Spec == Init /\ [][Next]_vars

(***************************************************************************)
(* checkAndSetLanguageId on its own: one run on any document.              *)
(***************************************************************************)
InitEvaluate ==
  /\ document \in [languageId : LanguageIds, lines : Texts]
  /\ pending = <<>>
  /\ last = [event |-> "activate", changes |-> {}, evaluated |-> FALSE,
             relabel |-> NoTarget, message |-> FALSE]
  /\ origin = document.languageId
  /\ markerSeen = FALSE
  /\ request = [line |-> 0, character |-> 0, answered |-> FALSE]
  /\ items = <<>>

Evaluate ==
  /\ last.event = "activate"
  /\ Deliver("evaluate", {}, document, TRUE)

NextEvaluate == Evaluate

SpecEvaluate == InitEvaluate /\ [][NextEvaluate]_vars

(***************************************************************************)
(* The completion provider.                                                *)
(***************************************************************************)
\* lines 116-326: the helper catalog, in its declared order (name, detail
\* and snippet; the snippet and detail texts are carried as they are)
clayHelpers ==
  <<
    [name |-> <<"p", "a", "s", "c", "a", "l", "C", "a", "s", "e">>,
     detail |-> "pascalCase value",
     snippet |-> "pascalCase ${1:value}"],
    [name |-> <<"c", "a", "m", "e", "l", "C", "a", "s", "e">>,
     detail |-> "camelCase value",
     snippet |-> "camelCase ${1:value}"],
    [name |-> <<"k", "e", "b", "a", "b", "C", "a", "s", "e">>,
     detail |-> "kebabCase value",
     snippet |-> "kebabCase ${1:value}"],
    [name |-> <<"s", "n", "a", "k", "e", "C", "a", "s", "e">>,
     detail |-> "snakeCase value",
     snippet |-> "snakeCase ${1:value}"],
    [name |-> <<"s", "t", "a", "r", "t", "C", "a", "s", "e">>,
     detail |-> "startCase value",
     snippet |-> "startCase ${1:value}"],
    [name |-> <<"p", "l", "u", "r", "a", "l", "i", "z", "e">>,
     detail |-> "pluralize value",
     snippet |-> "pluralize ${1:value}"],
    [name |-> <<"s", "i", "n", "g", "u", "l", "a", "r", "i", "z", "e">>,
     detail |-> "singularize value",
     snippet |-> "singularize ${1:value}"],
    [name |-> <<"i", "f", "C", "o", "n", "d">>,
     detail |-> "#ifCond v1 operator v2",
     snippet |-> "#ifCond ${1:value1} ${2:==} ${3:value2}}\n  $4\n{{/ifCond"],
    [name |-> <<"s", "w", "i", "t", "c", "h">>,
     detail |-> "#switch value",
     snippet |-> "#switch ${1:value}}\n  {{#case ${2:'value1'}}}\n    $3\n  {{/case}}\n  {{#default}}\n    $4\n  {{/default}}\n{{/switch"],
    [name |-> <<"c", "a", "s", "e">>,
     detail |-> "#case value",
     snippet |-> "#case ${1:'value'}}}$2{{/case"],
    [name |-> <<"d", "e", "f", "a", "u", "l", "t">>,
     detail |-> "#default",
     snippet |-> "#default}}$1{{/default"],
    [name |-> <<"e", "q">>,
     detail |-> "eq v1 v2",
     snippet |-> "eq ${1:value1} ${2:value2}"],
    [name |-> <<"n", "e">>,
     detail |-> "ne v1 v2",
     snippet |-> "ne ${1:value1} ${2:value2}"],
    [name |-> <<"l", "t">>,
     detail |-> "lt v1 v2",
     snippet |-> "lt ${1:value1} ${2:value2}"],
    [name |-> <<"g", "t">>,
     detail |-> "gt v1 v2",
     snippet |-> "gt ${1:value1} ${2:value2}"],
    [name |-> <<"l", "t", "e">>,
     detail |-> "lte v1 v2",
     snippet |-> "lte ${1:value1} ${2:value2}"],
    [name |-> <<"g", "t", "e">>,
     detail |-> "gte v1 v2",
     snippet |-> "gte ${1:value1} ${2:value2}"],
    [name |-> <<"a", "n", "d">>,
     detail |-> "and v1 v2 ...",
     snippet |-> "and ${1:value1} ${2:value2}"],
    [name |-> <<"o", "r">>,
     detail |-> "or v1 v2 ...",
     snippet |-> "or ${1:value1} ${2:value2}"],
    [name |-> <<"t", "i", "m", "e", "s">>,
     detail |-> "#times n",
     snippet |-> "#times ${1:5}}}$2{{/times"],
    [name |-> <<"e", "a", "c", "h", "U", "n", "i", "q", "u", "e">>,
     detail |-> "#eachUnique array property",
     snippet |-> "#eachUnique ${1:array} ${2:property}}}$3{{/eachUnique"],
    [name |-> <<"e", "a", "c", "h", "U", "n", "i", "q", "u", "e", "J", "S", "O", "N", "P", "a", "t", "h">>,
     detail |-> "#eachUniqueJSONPath model jsonPath",
     snippet |-> "#eachUniqueJSONPath ${1:model} ${2:'$.path'}}}$3{{/eachUniqueJSONPath"],
    [name |-> <<"i", "n", "c">>,
     detail |-> "inc value",
     snippet |-> "inc ${1:value}"],
    [name |-> <<"j", "s", "o", "n">>,
     detail |-> "json value",
     snippet |-> "json ${1:value}"],
    [name |-> <<"m", "a", "r", "k", "d", "o", "w", "n">>,
     detail |-> "markdown value",
     snippet |-> "markdown ${1:value}"],
    [name |-> <<"p", "r", "o", "p", "e", "r", "t", "y", "E", "x", "i", "s", "t", "s">>,
     detail |-> "propertyExists context field",
     snippet |-> "propertyExists ${1:context} ${2:'field.path'}"],
    [name |-> <<"s", "p", "l", "i", "t", "A", "n", "d", "U", "s", "e", "W", "o", "r", "d">>,
     detail |-> "splitAndUseWord string splitWord index",
     snippet |-> "splitAndUseWord ${1:string} ${2:'delimiter'} ${3:0}"],
    [name |-> <<"i", "f">>,
     detail |-> "#if condition",
     snippet |-> "#if ${1:condition}}}$2{{/if"],
    [name |-> <<"u", "n", "l", "e", "s", "s">>,
     detail |-> "#unless condition",
     snippet |-> "#unless ${1:condition}}}$2{{/unless"],
    [name |-> <<"e", "a", "c", "h">>,
     detail |-> "#each array",
     snippet |-> "#each ${1:array}}}$2{{/each"],
    [name |-> <<"w", "i", "t", "h">>,
     detail |-> "#with object",
     snippet |-> "#with ${1:object}}}$2{{/with"]
  >>

\* lines 340-347
commonHelpers ==
  { <<"p", "a", "s", "c", "a", "l", "C", "a", "s", "e">>,
    <<"c", "a", "m", "e", "l", "C", "a", "s", "e">>,
    <<"k", "e", "b", "a", "b", "C", "a", "s", "e">>,
    <<"p", "l", "u", "r", "a", "l", "i", "z", "e">>,
    <<"i", "f">>,
    <<"e", "a", "c", "h">> }

\* UTF-16 code units of the characters that occur in names and sort keys
charCode ==
  ("0" :> 48) @@ ("1" :> 49) @@ ("A" :> 65) @@ ("B" :> 66) @@ ("C" :> 67) @@ ("D" :> 68) @@
  ("E" :> 69) @@ ("F" :> 70) @@ ("G" :> 71) @@ ("H" :> 72) @@ ("I" :> 73) @@ ("J" :> 74) @@
  ("K" :> 75) @@ ("L" :> 76) @@ ("M" :> 77) @@ ("N" :> 78) @@ ("O" :> 79) @@ ("P" :> 80) @@
  ("Q" :> 81) @@ ("R" :> 82) @@ ("S" :> 83) @@ ("T" :> 84) @@ ("U" :> 85) @@ ("V" :> 86) @@
  ("W" :> 87) @@ ("X" :> 88) @@ ("Y" :> 89) @@ ("Z" :> 90) @@ ("a" :> 97) @@ ("b" :> 98) @@
  ("c" :> 99) @@ ("d" :> 100) @@ ("e" :> 101) @@ ("f" :> 102) @@ ("g" :> 103) @@ ("h" :> 104) @@
  ("i" :> 105) @@ ("j" :> 106) @@ ("k" :> 107) @@ ("l" :> 108) @@ ("m" :> 109) @@ ("n" :> 110) @@
  ("o" :> 111) @@ ("p" :> 112) @@ ("q" :> 113) @@ ("r" :> 114) @@ ("s" :> 115) @@ ("t" :> 116) @@
  ("u" :> 117) @@ ("v" :> 118) @@ ("w" :> 119) @@ ("x" :> 120) @@ ("y" :> 121) @@ ("z" :> 122)

\* String.prototype.substring(start, end), positions counted from 0
substring(s, start, end) ==
  LET e == IF end > Len(s) THEN Len(s) ELSE end
  IN  SubSeq(s, start + 1, e)

\* String.prototype.includes
includes(s, sub) ==
  \E i \in 1..(Len(s) - Len(sub) + 1) : SubSeq(s, i, i + Len(sub) - 1) = sub

\* the close marker not looked for
insideBrackets_OpenOnly(prefix) == includes(prefix, <<"{", "{">>)

\* line 115: "inside handlebars brackets"
insideBrackets(prefix) ==
  includes(prefix, <<"{", "{">>) /\ ~includes(prefix, <<"}", "}">>)

\* the two priority prefixes exchanged
sortText_Swapped(name) ==
  IF name \in commonHelpers THEN <<"1">> \o name ELSE <<"0">> \o name

\* lines 348-352
sortText(name) ==
  IF name \in commonHelpers THEN <<"0">> \o name ELSE <<"1">> \o name

\* lines 106-358
provideCompletionItems(d, position) ==
  LET prefix == substring(d.lines[position.line + 1], 0, position.character)
  IN  IF insideBrackets(prefix)
        THEN [ i \in 1..Len(clayHelpers) |->
                 [label |-> clayHelpers[i].name,
                  detail |-> clayHelpers[i].detail,
                  insertText |-> clayHelpers[i].snippet,
                  sortText |-> sortText(clayHelpers[i].name)] ]
        ELSE <<>>

\* the characters of the lines completions are requested on: the two braces
\* and one character standing for any other
Alphabet == { "{", "}", "a" }

\* lines 98-104: the provider is registered for the two derived language ids;
\* a request comes with a document and a cursor position on one of its lines
InitCompletion ==
  /\ document \in [languageId : {JS_CLAY_LANG_ID, TS_CLAY_LANG_ID},
                   lines : { <<t>> : t \in SeqsUpTo(Alphabet, MaxLineLen) }]
  /\ request \in { r \in [line : {0}, character : 0..MaxLineLen, answered : {FALSE}] :
                     r.character <= Len(document.lines[1]) }
  /\ items = <<>>
  /\ pending = <<>>
  /\ last = [event |-> "activate", changes |-> {}, evaluated |-> FALSE,
             relabel |-> NoTarget, message |-> FALSE]
  /\ origin = document.languageId
  /\ markerSeen = FALSE

\* the host asks the provider for the items at the cursor
ProvideCompletionItems ==
  /\ ~request.answered
  /\ items' = provideCompletionItems(document, request)
  /\ request' = [request EXCEPT !.answered = TRUE]
  /\ UNCHANGED <<document, pending, last, origin, markerSeen>>

NextCompletion == ProvideCompletionItems

SpecCompletion == InitCompletion /\ [][NextCompletion]_vars

(***************************************************************************)
(* Vocabulary of the properties.                                           *)
(***************************************************************************)
\* the table of base language ids and their derived ids
LanguageMapping ==
  [ b \in validLanguages |->
      IF b \in {"javascript", "javascriptreact"} THEN JS_CLAY_LANG_ID ELSE TS_CLAY_LANG_ID ]

DerivedIds == { LanguageMapping[b] : b \in DOMAIN LanguageMapping }

AllWhiteSpace(s) == \A i \in 1..Len(s) : s[i] \in WhiteSpace

\* the line is the marker with nothing but white space before and after it
IsMarkerLine(line) ==
  \E i \in 1..(Len(line) + 1) :
    LET j == i + Len(MAGIC_COMMENT) - 1
    IN  /\ j <= Len(line)
        /\ SubSeq(line, i, j) = MAGIC_COMMENT
        /\ AllWhiteSpace(SubSeq(line, 1, i - 1))
        /\ AllWhiteSpace(SubSeq(line, j + 1, Len(line)))

MarkerOnLine0(d) == Len(d.lines) > 0 /\ IsMarkerLine(d.lines[1])

\* C1: a run of checkAndSetLanguageId requests a relabel exactly when line 0,
\* trimmed, is the marker and the document's language id has a mapped target
\* different from it.
C1_RelabelIffMarkerAndOtherTarget ==
  last.evaluated =>
    ( (last.relabel # NoTarget)
        <=> ( /\ MarkerOnLine0(document)
              /\ document.languageId \in DOMAIN LanguageMapping
              /\ document.languageId # LanguageMapping[document.languageId] ) )

\* C1 witness: a relabel was requested for a document whose line 0 is the
\* marker with white space on both sides and whose line 1 is ordinary code
C1_Witness ==
  /\ last.evaluated
  /\ last.relabel # NoTarget
  /\ document.lines = << <<" ", "\t">> \o MAGIC_COMMENT \o <<"\t">>, <<"x">> >>

\* C2 (as stated): of two successive runs of checkAndSetLanguageId with the
\* text unchanged in between, the second requests no relabel and shows no
\* message.
C2_SecondCallNoOp ==
  [][ (last.evaluated /\ last'.evaluated /\ document'.lines = document.lines)
        => (last'.relabel = NoTarget /\ ~last'.message) ]_vars

\* C3 (as stated, for the documents that did not already carry a derived id
\* at activation): a document carries a derived id exactly when its base
\* language id has a mapping and line 0, trimmed, is the marker.
C3_DerivedIffMarker ==
  origin \notin DerivedIds =>
    ( (document.languageId \in DerivedIds)
        <=> ( /\ origin \in DOMAIN LanguageMapping
              /\ MarkerOnLine0(document) ) )

\* C3 (amended): a document carries a derived id only if it carried it at
\* activation, or its language id at activation has that id as mapped target
\* and checkAndSetLanguageId has run on it with the marker on line 0.
C3_DerivedOnlyIfMarkerSeen ==
  (document.languageId \in DerivedIds)
    => \/ origin = document.languageId
       \/ /\ origin \in DOMAIN LanguageMapping
          /\ document.languageId = LanguageMapping[origin]
          /\ markerSeen

\* C3 witness: a relabelled document whose line 0 no longer holds the marker
C3_Witness ==
  /\ document.languageId \in DerivedIds
  /\ origin \in DOMAIN LanguageMapping
  /\ ~MarkerOnLine0(document)
  /\ last.event = "changed"

\* C4: the change listener runs checkAndSetLanguageId exactly when some
\* content change starts or ends on line 0; changes that all lie after line 0
\* request no relabel.
C4_EvaluatedIffLine0Touched ==
  last.event = "changed" =>
    /\ last.evaluated <=> (\E c \in last.changes : c.start = 0 \/ c.end = 0)
    /\ (\A c \in last.changes : c.start > 0 /\ c.end > 0) => last.relabel = NoTarget

\* C4 witness: an event with one change on line 0 and one after it led to a
\* relabel request
C4_Witness ==
  /\ last.event = "changed"
  /\ \E c \in last.changes : c.start = 0
  /\ \E c \in last.changes : c.start > 0
  /\ last.relabel # NoTarget

\* C8: a run of checkAndSetLanguageId on a document whose language id has no
\* mapping requests no relabel, shows no message and leaves the id unchanged.
C8_UnmappedUntouched ==
  [][ (last'.evaluated /\ document'.languageId \notin DOMAIN LanguageMapping)
        => /\ pending' = pending
           /\ last'.relabel = NoTarget
           /\ ~last'.message
           /\ document'.languageId = document.languageId ]_vars

\* C8 witness: checkAndSetLanguageId has run on an unmapped document with the
\* marker on line 0
C8_Witness ==
  /\ last.evaluated
  /\ document.languageId = "python"
  /\ MarkerOnLine0(document)

\* C9: every relabel request carries the derived id the mapping gives for the
\* document's language id at the time of the request.
C9_TargetIsMapped ==
  /\ last.relabel # NoTarget =>
       /\ document.languageId \in DOMAIN LanguageMapping
       /\ last.relabel = LanguageMapping[document.languageId]
  /\ \A i \in 1..Len(pending) : pending[i] \in DerivedIds
  /\ LanguageMapping["javascript"] = "javascript-with-clay"
  /\ LanguageMapping["javascriptreact"] = "javascript-with-clay"
  /\ LanguageMapping["typescript"] = "typescript-with-clay"
  /\ LanguageMapping["typescriptreact"] = "typescript-with-clay"

\* C9 witness: a relabel to the TypeScript dialect was requested for a
\* typescriptreact document
C9_Witness ==
  /\ last.relabel = TS_CLAY_LANG_ID
  /\ document.languageId = "typescriptreact"

\* C10: once the document carries a derived id, no step issues a relabel
\* request for it and the id stays.
C10_DerivedAbsorbing ==
  [][ document.languageId \in DerivedIds
        => /\ document'.languageId = document.languageId
           /\ Len(pending') <= Len(pending) ]_vars

\* C10 witness: checkAndSetLanguageId has run on a relabelled document after
\* the marker was edited away
C10_Witness ==
  /\ document.languageId \in DerivedIds
  /\ origin \in DOMAIN LanguageMapping
  /\ last.evaluated
  /\ ~MarkerOnLine0(document)

\* the text from column 0 to the cursor
Context == substring(document.lines[request.line + 1], 0, request.character)

\* the context holds an open marker with no close marker after it
UnmatchedOpen(ctx) ==
  \E i \in 1..(Len(ctx) - 1) :
    /\ ctx[i] = "{" /\ ctx[i + 1] = "{"
    /\ ~\E j \in (i + 2)..(Len(ctx) - 1) : ctx[j] = "}" /\ ctx[j + 1] = "}"

\* string comparison by code units: a < b
RECURSIVE Before(_, _)
Before(a, b) ==
  IF b = <<>> THEN FALSE
  ELSE IF a = <<>> THEN TRUE
  ELSE IF charCode[Head(a)] # charCode[Head(b)] THEN charCode[Head(a)] < charCode[Head(b)]
  ELSE Before(Tail(a), Tail(b))

IsCommon(item) == item.label \in commonHelpers

\* C5 (as stated): whenever the context holds an open marker with no close
\* marker after it, the provider returns one item per catalog entry, among
\* them pascalCase.
C5_UnmatchedOpenGivesCatalog ==
  (request.answered /\ UnmatchedOpen(Context)) =>
    /\ Len(items) = Len(clayHelpers)
    /\ \A i \in 1..Len(clayHelpers) : items[i].label = clayHelpers[i].name
    /\ \E i \in 1..Len(items) : items[i].label = <<"p", "a", "s", "c", "a", "l", "C", "a", "s", "e">>

\* C6: whenever the context holds no open marker, or a close marker after
\* every open marker, the provider returns the empty sequence.
C6_NoUnmatchedOpenGivesNothing ==
  (request.answered /\ ~UnmatchedOpen(Context)) => items = <<>>

\* C6 witness: answered with nothing for an expression already closed
C6_Witness ==
  /\ request.answered
  /\ Context = <<"{", "{", "a", "}", "}">>
  /\ items = <<>>

\* C7 (as stated): by sort key every common item comes before every normal
\* item, and within a tier the items come in the catalog's declared order.
C7_SortKeyFollowsCatalog ==
  \A i, j \in 1..Len(items) :
    /\ (IsCommon(items[i]) /\ ~IsCommon(items[j]))
         => Before(items[i].sortText, items[j].sortText)
    /\ (IsCommon(items[i]) = IsCommon(items[j]) /\ i < j)
         => Before(items[i].sortText, items[j].sortText)

\* C7 (amended): by sort key every common item comes before every normal
\* item, and within a tier the items come in the code-unit order of their
\* names.
C7_SortKeyFollowsTierThenName ==
  \A i, j \in 1..Len(items) :
    /\ (IsCommon(items[i]) /\ ~IsCommon(items[j]))
         => Before(items[i].sortText, items[j].sortText)
    /\ (IsCommon(items[i]) = IsCommon(items[j]))
         => (Before(items[i].sortText, items[j].sortText)
               <=> Before(items[i].label, items[j].label))

\* C7 witness: the catalog was returned, with both tiers present
C7_Witness ==
  /\ request.answered
  /\ Len(items) = Len(clayHelpers)
  /\ \E i, j \in 1..Len(items) : IsCommon(items[i]) /\ ~IsCommon(items[j])

====
